---- MODULE Spec2Model ----
(***************************************************************************)
(* The World of src/src/ecs/world.rs: an entity allocator, a validity set  *)
(* and one ComponentsStorage (dense vector + entity -> index map) per      *)
(* component type, with swap-remove deletion.                              *)
(*                                                                         *)
(* Every method of World is an operator on `self`, a record of the fields  *)
(* of World, that yields the method's Result and, for a &mut self method,  *)
(* the World it leaves.  The actions apply these operators to the state.   *)
(*                                                                         *)
(* Vec indices are 0-based as in the Rust code; the TLA+ sequence that     *)
(* models a Vec is 1-based, so component_vec[i] of the code is             *)
(* component_vec[i + 1] here.                                              *)
(***************************************************************************)
EXTENDS Integers, Sequences, FiniteSets

\* ------------------------------------------------------------------ bounds

\* Under Spec create_entity is called at most MaxEntities times, so the
\* valid ids are a prefix of 0 .. MaxEntities - 1 and the id MaxEntities is
\* never valid.
MaxEntities == 3

\* The width of usize, the type of entity_counter and of EntityId, scaled
\* down: the counter takes the values 0 .. 2^UsizeBits - 1 and fetch_add
\* wraps.  MaxEntities < 2^UsizeBits, so the counter does not wrap under
\* Spec; it does under WrapSpec.
UsizeBits == 2

\* HealthComponent(i32) payloads are drawn from 0 .. MaxValue.
MaxValue == 1

\* ------------------------------------------------------------ value spaces

\* The number of values of usize.
UsizeValues == 2 ^ UsizeBits

\* EntityId(usize) values a caller may pass, valid or not.
EntityIds == 0 .. MaxEntities

\* The entity ids the calls of WrapSpec are made with: the first id, which
\* the wrapped counter hands out again, and the last id before the wrap.
WrapEntityIds == {0, UsizeValues - 1}

\* The component types of tests.rs that the model instantiates C with:
\* one carrying data, one a unit struct.
ComponentTypes == {"HealthComponent", "PlayerTag"}

\* The values of a component type (a unit struct has exactly one).
ComponentData(C) == IF C = "HealthComponent" THEN 0 .. MaxValue ELSE {0}

\* Placeholder of a Result field that carries nothing.
None == -1

VARIABLES
    component_storage_vecs,  \* World.component_storage_vecs: type -> storage
    entity_validity_set,     \* World.entity_validity_set
    entity_counter,          \* World.entity_counter
    panicked,                \* a call has panicked: the program is over
    ever_added,              \* history: types some successful add was made with
    ever_registered,         \* history: types of a successful add or of a call
                             \* of ensure_component_registered
    stored,                  \* history: <<type, entity>> -> value last given
                             \* by a successful add or a write through get_mut
    returned                 \* history: the ids create_entity has returned,
                             \* in the order of the calls

vars == <<component_storage_vecs, entity_validity_set, entity_counter,
          panicked, ever_added, ever_registered, stored, returned>>

\* The World the state holds.
Self ==
    [component_storage_vecs |-> component_storage_vecs,
     entity_validity_set |-> entity_validity_set,
     entity_counter |-> entity_counter]

\* --------------------------------------------------------- map primitives

\* HashMap::remove: the map without key k (no effect when k is absent).
MapRemove(m, k) == [x \in (DOMAIN m) \ {k} |-> m[x]]

\* HashMap::insert: the map with k bound to v.
MapInsert(m, k, v) == [x \in (DOMAIN m) \cup {k} |-> IF x = k THEN v ELSE m[x]]

\* The empty HashMap.
EmptyMap == [x \in {} |-> None]

\* ------------------------------------------------------- ComponentsStorage

\* ComponentsStorage::new
NewStorage == [component_vec |-> <<>>, entity_component_map |-> EmptyMap]

\* ------------------------------------------------------------ results

Ok(v) == [result |-> "Ok", ret |-> v]
Err(kind) == [result |-> kind, ret |-> None]
Panic == [result |-> "Panic", ret |-> None]

\* The Result of a &mut self method together with the World it leaves.
Leaves(r, self) == [result |-> r.result, ret |-> r.ret, self |-> self]

\* ------------------------------------------------------------ World, reads

\* World::new
new ==
    [component_storage_vecs |-> EmptyMap,
     entity_validity_set |-> {},
     entity_counter |-> 0]

\* World::is_entity_valid
is_entity_valid(self, id) == id \in self.entity_validity_set

\* World::get_component_storage / get_component_storage_mut: an Option,
\* as the set holding the storage or the empty set.  The downcast to
\* ComponentsStorage<C> succeeds for every box stored under TypeId::of::<C>(),
\* because ensure_component_registered is the only insertion.
get_component_storage(self, C) ==
    IF C \in DOMAIN self.component_storage_vecs
    THEN {self.component_storage_vecs[C]}
    ELSE {}

\* get_entity_component with the two ok_or errors exchanged.
get_entity_component_errors_exchanged(self, C, entity_id) ==
    IF ~is_entity_valid(self, entity_id) THEN Err("InvalidEntityId")
    ELSE IF get_component_storage(self, C) = {} THEN Err("InvalidEntityComponent")
    ELSE LET component_storage == CHOOSE cs \in get_component_storage(self, C) : TRUE
             map == component_storage.entity_component_map
             vec == component_storage.component_vec
         IN  IF entity_id \notin DOMAIN map THEN Err("InvalidWorldComponent")
             ELSE LET component_index == map[entity_id]
                  IN  IF component_index >= Len(vec) THEN Panic
                      ELSE Ok(vec[component_index + 1][2])

\* World::get_entity_component: the checks, then the indexing of
\* component_vec, which panics out of bounds.
get_entity_component(self, C, entity_id) ==
    IF ~is_entity_valid(self, entity_id) THEN Err("InvalidEntityId")
    ELSE IF get_component_storage(self, C) = {} THEN Err("InvalidWorldComponent")
    ELSE LET component_storage == CHOOSE cs \in get_component_storage(self, C) : TRUE
             map == component_storage.entity_component_map
             vec == component_storage.component_vec
         IN  IF entity_id \notin DOMAIN map THEN Err("InvalidEntityComponent")
             ELSE LET component_index == map[entity_id]
                  IN  IF component_index >= Len(vec) THEN Panic
                      ELSE Ok(vec[component_index + 1][2])

\* get_entity_component_mut handing out a reference to the last entry of
\* component_vec instead of the entry at the entity's index.
get_entity_component_mut_last(self, C, entity_id) ==
    IF ~is_entity_valid(self, entity_id) THEN Err("InvalidEntityId")
    ELSE IF get_component_storage(self, C) = {} THEN Err("InvalidWorldComponent")
    ELSE LET component_storage == CHOOSE cs \in get_component_storage(self, C) : TRUE
             map == component_storage.entity_component_map
             vec == component_storage.component_vec
         IN  IF entity_id \notin DOMAIN map THEN Err("InvalidEntityComponent")
             ELSE IF Len(vec) = 0 THEN Panic
             ELSE Ok(Len(vec) - 1)

\* World::get_entity_component_mut: the same checks; the &mut C it returns
\* is modelled by the index of the entry it points into.
get_entity_component_mut(self, C, entity_id) ==
    IF ~is_entity_valid(self, entity_id) THEN Err("InvalidEntityId")
    ELSE IF get_component_storage(self, C) = {} THEN Err("InvalidWorldComponent")
    ELSE LET component_storage == CHOOSE cs \in get_component_storage(self, C) : TRUE
             map == component_storage.entity_component_map
             vec == component_storage.component_vec
         IN  IF entity_id \notin DOMAIN map THEN Err("InvalidEntityComponent")
             ELSE LET component_index == map[entity_id]
                  IN  IF component_index >= Len(vec) THEN Panic
                      ELSE Ok(component_index)

\* The caller's assignment through the &mut C of get_entity_component_mut
\* (tests.rs 111-114): the data of the entry at component_index is replaced;
\* the owner field of the entry is out of the reference's reach.
write_component(self, C, component_index, component_data) ==
    [self EXCEPT
        !.component_storage_vecs[C].component_vec[component_index + 1][2] =
            component_data]

\* ----------------------------------------------------------- World, writes

\* fetch_add yielding the value after the addition instead of the value
\* before it.
fetch_add_returns_new(counter) ==
    [old |-> (counter + 1) % UsizeValues, new |-> (counter + 1) % UsizeValues]

\* AtomicUsize::fetch_add(1, _): the value before, and the value after,
\* which wraps around on overflow.
fetch_add(counter) == [old |-> counter, new |-> (counter + 1) % UsizeValues]

\* create_entity without the insertion into entity_validity_set.
create_entity_counts_only(self) ==
    LET entity_id == fetch_add(self.entity_counter).old
    IN  Leaves(Ok(entity_id),
               [self EXCEPT !.entity_counter = fetch_add(@).new])

\* World::create_entity: the id returned and the World it leaves.
create_entity(self) ==
    LET entity_id == fetch_add(self.entity_counter).old
    IN  Leaves(Ok(entity_id),
               [self EXCEPT !.entity_counter = fetch_add(@).new,
                            !.entity_validity_set = @ \cup {entity_id}])

\* ensure_component_registered inserting a new storage whether or not the
\* type has one.
ensure_component_registered_replaces(self, C) ==
    Leaves(Ok(C \in DOMAIN self.component_storage_vecs),
           [self EXCEPT !.component_storage_vecs = MapInsert(@, C, NewStorage)])

\* ensure_component_registered building the map of storages anew when it
\* registers a type, so that the storages of the other types are lost.
ensure_component_registered_alone(self, C) ==
    IF C \in DOMAIN self.component_storage_vecs
    THEN Leaves(Ok(TRUE), self)
    ELSE Leaves(Ok(FALSE),
                [self EXCEPT !.component_storage_vecs =
                    MapInsert(EmptyMap, C, NewStorage)])

\* World::ensure_component_registered: whether the type had a storage, and
\* the World with an empty storage inserted when it had none.
ensure_component_registered(self, C) ==
    IF C \in DOMAIN self.component_storage_vecs
    THEN Leaves(Ok(TRUE), self)
    ELSE Leaves(Ok(FALSE),
                [self EXCEPT !.component_storage_vecs = MapInsert(@, C, NewStorage)])

\* push_component forgetting the insertion into entity_component_map.
push_component_no_index(cs, entity_id, component_data) ==
    [component_vec |-> Append(cs.component_vec, <<entity_id, component_data>>),
     entity_component_map |-> cs.entity_component_map]

\* push_component taking the index after the push instead of before it.
push_component_index_after(cs, entity_id, component_data) ==
    [component_vec |-> Append(cs.component_vec, <<entity_id, component_data>>),
     entity_component_map |->
         MapInsert(cs.entity_component_map, entity_id, Len(cs.component_vec) + 1)]

\* add_entity_component, lines 98-105: push (entity_id, component_data) and
\* record its index, the length of component_vec before the push.
push_component(cs, entity_id, component_data) ==
    LET component_index == Len(cs.component_vec)
    IN  [component_vec |-> Append(cs.component_vec, <<entity_id, component_data>>),
         entity_component_map |->
             MapInsert(cs.entity_component_map, entity_id, component_index)]

\* add_entity_component without the contains_key check of lines 88-96.
add_entity_component_unchecked(self, C, entity_id, component_data) ==
    IF ~is_entity_valid(self, entity_id)
    THEN Leaves(Err("InvalidEntityId"), self)
    ELSE LET registered == ensure_component_registered(self, C).self
         IN  Leaves(Ok(None),
                    [registered EXCEPT
                        !.component_storage_vecs[C] =
                            push_component(@, entity_id, component_data)])

\* add_entity_component registering the type before it checks the entity.
add_entity_component_registers_first(self, C, entity_id, component_data) ==
    LET registered == ensure_component_registered(self, C).self
    IN  IF ~is_entity_valid(self, entity_id)
        THEN Leaves(Err("InvalidEntityId"), registered)
        ELSE IF entity_id \in
                    DOMAIN registered.component_storage_vecs[C].entity_component_map
        THEN Leaves(Err("ComponentAlreadyAdded"), registered)
        ELSE Leaves(Ok(None),
                    [registered EXCEPT
                        !.component_storage_vecs[C] =
                            push_component(@, entity_id, component_data)])

\* add_entity_component without the call of ensure_component_registered.
add_entity_component_not_registering(self, C, entity_id, component_data) ==
    IF ~is_entity_valid(self, entity_id) THEN Leaves(Err("InvalidEntityId"), self)
    ELSE IF get_component_storage(self, C) = {}
    THEN Leaves(Err("InvalidWorldComponent"), self)
    ELSE IF entity_id \in DOMAIN self.component_storage_vecs[C].entity_component_map
    THEN Leaves(Err("ComponentAlreadyAdded"), self)
    ELSE Leaves(Ok(None),
                [self EXCEPT !.component_storage_vecs[C] =
                    push_component(@, entity_id, component_data)])

\* World::add_entity_component: the Result and the World it leaves.
add_entity_component(self, C, entity_id, component_data) ==
    IF ~is_entity_valid(self, entity_id)
    THEN Leaves(Err("InvalidEntityId"), self)
    ELSE LET registered == ensure_component_registered(self, C).self
         IN  IF get_component_storage(registered, C) = {}
             THEN Leaves(Err("InvalidWorldComponent"), registered)
             ELSE IF entity_id \in
                         DOMAIN registered.component_storage_vecs[C].entity_component_map
             THEN Leaves(Err("ComponentAlreadyAdded"), registered)
             ELSE Leaves(Ok(None),
                         [registered EXCEPT
                             !.component_storage_vecs[C] =
                                 push_component(@, entity_id, component_data)])
\* reindex_popped leaving the popped entry's index entry as it was.
reindex_popped_skipped(map, popped_entity, entity_component_index) == map

\* The update of the popped entity's index done as a removal of its entry.
reindex_popped_dropped(map, popped_entity, entity_component_index) ==
    MapRemove(map, popped_entity)

\* The update of the popped entity's index giving it the position behind
\* the removed entry's.
reindex_popped_next(map, popped_entity, entity_component_index) ==
    IF popped_entity \in DOMAIN map
    THEN [map EXCEPT ![popped_entity] = entity_component_index + 1]
    ELSE map

\* remove_entity_component, lines 138-144: the popped entry's entity gets
\* the removed entry's index, if it (still) has an index entry.
reindex_popped(map, popped_entity, entity_component_index) ==
    IF popped_entity \in DOMAIN map
    THEN [map EXCEPT ![popped_entity] = entity_component_index]
    ELSE map

\* remove_index_entry leaving the entry in place.
remove_index_entry_skipped(map, entity_id) == map

\* remove_entity_component, line 153: the removed entity's index entry is
\* dropped on both branches (again, on the swap branch).
remove_index_entry(map, entity_id) == MapRemove(map, entity_id)

\* mem_replace that reads the old entry but does not store the popped one.
mem_replace_not_stored(vec, i, popped_component) ==
    [vec |-> vec, old |-> vec[i + 1]]

\* mem_replace that hands back the entry it stored instead of the old one.
mem_replace_returns_new(vec, i, popped_component) ==
    [vec |-> [vec EXCEPT ![i + 1] = popped_component], old |-> popped_component]

\* mem_replace storing the popped component's data under the owner of the
\* entry it replaces.
mem_replace_keeps_owner(vec, i, popped_component) ==
    [vec |-> [vec EXCEPT ![i + 1] = <<vec[i + 1][1], popped_component[2]>>],
     old |-> vec[i + 1]]

\* std::mem::replace(&mut component_vec[i], popped_component), lines 146-150:
\* the vector with the popped entry at index i, and the entry that was there.
mem_replace(vec, i, popped_component) ==
    [vec |-> [vec EXCEPT ![i + 1] = popped_component], old |-> vec[i + 1]]

\* The removal done as Vec::remove: the entries behind the removed one
\* shift down by one and their index entries follow.
shift_remove(cs, entity_id) ==
    LET entity_component_index == cs.entity_component_map[entity_id]
        vec == cs.component_vec
    IN  IF Len(vec) = 0 THEN [result |-> "Panic", ret |-> None, cs |-> cs]
        ELSE [result |-> "Ok", ret |-> vec[entity_component_index + 1][2],
              cs |-> [component_vec |->
                          SubSeq(vec, 1, entity_component_index) \o
                              SubSeq(vec, entity_component_index + 2, Len(vec)),
                      entity_component_map |->
                          [b \in DOMAIN cs.entity_component_map \ {entity_id} |->
                              IF cs.entity_component_map[b] > entity_component_index
                              THEN cs.entity_component_map[b] - 1
                              ELSE cs.entity_component_map[b]]]]

\* remove_entity_component, line 131, for an entity with an index entry in
\* a storage that is not empty: the test that sends the call to the branch
\* returning the popped component, entity_component_index ==
\* component_vec.len() with the length taken after the pop.
popped_is_removed(cs, entity_id) ==
    cs.entity_component_map[entity_id] = Len(cs.component_vec) - 1

\* remove_entity_component, lines 136-141, on the other branch: whether the
\* `if let Some(index)` finds an index entry of the popped component's
\* entity, looked up after the entry of entity_id is removed.
popped_has_index(cs, entity_id) ==
    cs.component_vec[Len(cs.component_vec)][1] \in
        DOMAIN MapRemove(cs.entity_component_map, entity_id)

\* remove_entity_component, lines 124-154, on the storage of the type: pop
\* the tail, then either return it or put it in the removed entry's place.
\* entity_id has an index entry (lines 119-122 passed).  A panic leaves the
\* storage as it was at the panicking line.
swap_remove(cs, entity_id) ==
    LET entity_component_index == cs.entity_component_map[entity_id]
        vec == cs.component_vec
    IN  IF Len(vec) = 0
        THEN [result |-> "Panic", ret |-> None, cs |-> cs]
        ELSE LET popped_component == vec[Len(vec)]
                 popped_vec == SubSeq(vec, 1, Len(vec) - 1)
             IN  IF entity_component_index = Len(popped_vec)
                 THEN [result |-> "Ok", ret |-> popped_component[2],
                       cs |-> [component_vec |-> popped_vec,
                               entity_component_map |->
                                   remove_index_entry(cs.entity_component_map,
                                                      entity_id)]]
                 ELSE LET map == reindex_popped(
                                     MapRemove(cs.entity_component_map, entity_id),
                                     popped_component[1], entity_component_index)
                      IN  IF entity_component_index > Len(popped_vec)
                          THEN [result |-> "Panic", ret |-> None,
                                cs |-> [component_vec |-> popped_vec,
                                        entity_component_map |-> map]]
                          ELSE LET replaced == mem_replace(popped_vec,
                                                   entity_component_index,
                                                   popped_component)
                               IN  [result |-> "Ok", ret |-> replaced.old[2],
                                    cs |-> [component_vec |-> replaced.vec,
                                            entity_component_map |->
                                                remove_index_entry(map, entity_id)]]

\* remove_entity_component dropping the storage of a type once it is empty.
remove_entity_component_drops_empty(self, C, entity_id) ==
    IF ~is_entity_valid(self, entity_id)
    THEN Leaves(Err("InvalidEntityId"), self)
    ELSE IF get_component_storage(self, C) = {}
    THEN Leaves(Err("InvalidWorldComponent"), self)
    ELSE LET component_storage == CHOOSE cs \in get_component_storage(self, C) : TRUE
         IN  IF entity_id \notin DOMAIN component_storage.entity_component_map
             THEN Leaves(Err("InvalidEntityComponent"), self)
             ELSE LET r == swap_remove(component_storage, entity_id)
                  IN  Leaves(r,
                             IF r.cs.component_vec = <<>>
                             THEN [self EXCEPT !.component_storage_vecs = MapRemove(@, C)]
                             ELSE [self EXCEPT !.component_storage_vecs[C] = r.cs])

\* remove_entity_component taking the entity out of entity_validity_set
\* with its component.
remove_entity_component_invalidates(self, C, entity_id) ==
    IF ~is_entity_valid(self, entity_id) THEN Leaves(Err("InvalidEntityId"), self)
    ELSE IF get_component_storage(self, C) = {}
    THEN Leaves(Err("InvalidWorldComponent"), self)
    ELSE LET component_storage == CHOOSE cs \in get_component_storage(self, C) : TRUE
         IN  IF entity_id \notin DOMAIN component_storage.entity_component_map
             THEN Leaves(Err("InvalidEntityComponent"), self)
             ELSE LET r == swap_remove(component_storage, entity_id)
                  IN  Leaves(r, [self EXCEPT !.component_storage_vecs[C] = r.cs,
                                             !.entity_validity_set = @ \ {entity_id}])

\* remove_entity_component registering the type when it finds no storage
\* for it, before it returns InvalidWorldComponent.
remove_entity_component_registers(self, C, entity_id) ==
    IF ~is_entity_valid(self, entity_id) THEN Leaves(Err("InvalidEntityId"), self)
    ELSE IF get_component_storage(self, C) = {}
    THEN Leaves(Err("InvalidWorldComponent"),
                ensure_component_registered(self, C).self)
    ELSE LET component_storage == CHOOSE cs \in get_component_storage(self, C) : TRUE
         IN  IF entity_id \notin DOMAIN component_storage.entity_component_map
             THEN Leaves(Err("InvalidEntityComponent"), self)
             ELSE LET r == swap_remove(component_storage, entity_id)
                  IN  Leaves(r, [self EXCEPT !.component_storage_vecs[C] = r.cs])

\* World::remove_entity_component: the Result, with the value removed, and
\* the World it leaves.
remove_entity_component(self, C, entity_id) ==
    IF ~is_entity_valid(self, entity_id)
    THEN Leaves(Err("InvalidEntityId"), self)
    ELSE IF get_component_storage(self, C) = {}
    THEN Leaves(Err("InvalidWorldComponent"), self)
    ELSE LET component_storage == CHOOSE cs \in get_component_storage(self, C) : TRUE
         IN  IF entity_id \notin DOMAIN component_storage.entity_component_map
             THEN Leaves(Err("InvalidEntityComponent"), self)
             ELSE LET r == swap_remove(component_storage, entity_id)
                  IN  Leaves(r, [self EXCEPT !.component_storage_vecs[C] = r.cs])

\* ------------------------------------------------------------------ calls

\* World::new
Init ==
    /\ component_storage_vecs = new.component_storage_vecs
    /\ entity_validity_set = new.entity_validity_set
    /\ entity_counter = new.entity_counter
    /\ panicked = FALSE
    /\ ever_added = {}
    /\ ever_registered = {}
    /\ stored = EmptyMap
    /\ returned = <<>>

\* The state takes the World a call leaves; a panic ends the program.
Becomes(r) ==
    /\ component_storage_vecs' = r.self.component_storage_vecs
    /\ entity_validity_set' = r.self.entity_validity_set
    /\ entity_counter' = r.self.entity_counter
    /\ panicked' = (r.result = "Panic")

\* A call of World::create_entity()
CreateEntity ==
    /\ ~panicked
    /\ entity_counter < MaxEntities
    /\ Becomes(create_entity(Self))
    /\ returned' = Append(returned, create_entity(Self).ret)
    /\ UNCHANGED <<ever_added, ever_registered, stored>>

\* A call of the public World::ensure_component_registered::<C>()
EnsureComponentRegistered(C) ==
    /\ ~panicked
    /\ Becomes(ensure_component_registered(Self, C))
    /\ ever_registered' = ever_registered \cup {C}
    /\ UNCHANGED <<ever_added, stored, returned>>

\* A call of World::add_entity_component::<C>(entity_id, component_data)
AddEntityComponent(C, entity_id, component_data) ==
    LET r == add_entity_component(Self, C, entity_id, component_data)
    IN  /\ ~panicked
        /\ Becomes(r)
        /\ ever_added' = IF r.result = "Ok" THEN ever_added \cup {C} ELSE ever_added
        /\ ever_registered' =
               IF r.result = "Ok" THEN ever_registered \cup {C} ELSE ever_registered
        /\ stored' = IF r.result = "Ok"
                     THEN MapInsert(stored, <<C, entity_id>>, component_data)
                     ELSE stored
        /\ UNCHANGED returned

\* A call of World::get_entity_component::<C>(entity_id): &self, so the
\* World is as before, unless the indexing panics.
GetEntityComponent(C, entity_id) ==
    /\ ~panicked
    /\ Becomes(Leaves(get_entity_component(Self, C, entity_id), Self))
    /\ UNCHANGED <<ever_added, ever_registered, stored, returned>>

\* A call of World::get_entity_component_mut::<C>(entity_id) whose caller,
\* on Ok, assigns component_data through the reference.
GetEntityComponentMut(C, entity_id, component_data) ==
    LET r == get_entity_component_mut(Self, C, entity_id)
    IN  /\ ~panicked
        /\ Becomes(Leaves(r, IF r.result = "Ok"
                             THEN write_component(Self, C, r.ret, component_data)
                             ELSE Self))
        /\ stored' = IF r.result = "Ok"
                     THEN MapInsert(stored, <<C, entity_id>>, component_data)
                     ELSE stored
        /\ UNCHANGED <<ever_added, ever_registered, returned>>

\* A call of World::remove_entity_component::<C>(entity_id)
RemoveEntityComponent(C, entity_id) ==
    LET r == remove_entity_component(Self, C, entity_id)
    IN  /\ ~panicked
        /\ Becomes(r)
        /\ stored' = IF r.result = "Ok"
                     THEN MapRemove(stored, <<C, entity_id>>)
                     ELSE stored
        /\ UNCHANGED <<ever_added, ever_registered, returned>>

\* A call of World::is_entity_valid(id): &self, so the World is as before.
IsEntityValid(id) ==
    /\ ~panicked
    /\ Becomes(Leaves(Ok(is_entity_valid(Self, id)), Self))
    /\ UNCHANGED <<ever_added, ever_registered, stored, returned>>

Next ==
    \/ CreateEntity
    \/ \E id \in EntityIds : IsEntityValid(id)
    \/ \E C \in ComponentTypes : EnsureComponentRegistered(C)
    \/ \E C \in ComponentTypes, e \in EntityIds :
           \E d \in ComponentData(C) : AddEntityComponent(C, e, d)
    \/ \E C \in ComponentTypes, e \in EntityIds : GetEntityComponent(C, e)
    \/ \E C \in ComponentTypes, e \in EntityIds :
           \E d \in ComponentData(C) : GetEntityComponentMut(C, e, d)
    \/ \E C \in ComponentTypes, e \in EntityIds : RemoveEntityComponent(C, e)

Spec == Init /\ [][Next]_vars

\* A call of World::create_entity() with no limit below the width of the
\* counter: calls go on until one call past the wrap.
CreateEntityPastWrap ==
    /\ ~panicked
    /\ Len(returned) <= UsizeValues
    /\ Becomes(create_entity(Self))
    /\ returned' = Append(returned, create_entity(Self).ret)
    /\ UNCHANGED <<ever_added, ever_registered, stored>>

\* The calls with create_entity running past the wrap of the counter.
WrapNext ==
    \/ CreateEntityPastWrap
    \/ \E id \in 0 .. UsizeValues - 1 : IsEntityValid(id)
    \/ \E C \in ComponentTypes : EnsureComponentRegistered(C)
    \/ \E C \in ComponentTypes, e \in WrapEntityIds :
           \E d \in ComponentData(C) : AddEntityComponent(C, e, d)
    \/ \E C \in ComponentTypes, e \in WrapEntityIds : GetEntityComponent(C, e)
    \/ \E C \in ComponentTypes, e \in WrapEntityIds :
           \E d \in ComponentData(C) : GetEntityComponentMut(C, e, d)
    \/ \E C \in ComponentTypes, e \in WrapEntityIds : RemoveEntityComponent(C, e)

WrapSpec == Init /\ [][WrapNext]_vars
\* ------------------------------------------------------------- properties

\* The entities of the entries of a component_vec, as a set.
DenseEntities(cs) == {cs.component_vec[i][1] : i \in 1 .. Len(cs.component_vec)}

\* The 0-based position in the component_vec of type C of the entry owned
\* by entity_id, found by scanning the vector (None if there is none).
DensePosition(self, C, entity_id) ==
    IF C \notin DOMAIN self.component_storage_vecs THEN None
    ELSE LET vec == self.component_storage_vecs[C].component_vec
             owned == {i \in 1 .. Len(vec) : vec[i][1] = entity_id}
         IN  IF owned = {} THEN None ELSE (CHOOSE i \in owned : TRUE) - 1

\* The number of entries of the component_vec of type C (0 without storage).
DenseLen(self, C) ==
    IF C \notin DOMAIN self.component_storage_vecs THEN 0
    ELSE Len(self.component_storage_vecs[C].component_vec)

\* History: the pair (C, e) holds a value, given by a successful add and
\* not taken by a successful remove since.
Has(C, e) == <<C, e>> \in DOMAIN stored

\* The ids create_entity has returned so far.
Created == {returned[i] : i \in 1 .. Len(returned)}

\* C1 (invariant I1): in every storage, every index entry (id -> pos) has
\* pos < len(component_vec) and component_vec[pos] is owned by id.
C1_IndexPointsAtOwner ==
    \A C \in DOMAIN component_storage_vecs :
        LET cs == component_storage_vecs[C]
        IN  \A id \in DOMAIN cs.entity_component_map :
                /\ cs.entity_component_map[id] >= 0
                /\ cs.entity_component_map[id] < Len(cs.component_vec)
                /\ cs.component_vec[cs.entity_component_map[id] + 1][1] = id

\* A storage holds three entries, and the remove of its head entry (the
\* swap case) leaves two entries with the former tail at position 0 and its
\* index entry pointing there.
C1_Witness ==
    \E C \in DOMAIN component_storage_vecs, a \in EntityIds :
        /\ DenseLen(Self, C) = 3 /\ DensePosition(Self, C, a) = 0
        /\ LET tail == component_storage_vecs[C].component_vec[3][1]
               r == remove_entity_component(Self, C, a)
           IN  /\ r.result = "Ok"
               /\ DenseLen(r.self, C) = 2
               /\ DensePosition(r.self, C, tail) = 0
               /\ r.self.component_storage_vecs[C].entity_component_map[tail] = 0

\* C2 (invariants I2 and I3): in every storage the entities of component_vec
\* are exactly the keys of entity_component_map, none occurs twice, and the
\* two have the same size.
C2_DenseMatchesIndex ==
    \A C \in DOMAIN component_storage_vecs :
        LET cs == component_storage_vecs[C]
        IN  /\ DenseEntities(cs) = DOMAIN cs.entity_component_map
            /\ \A i, j \in 1 .. Len(cs.component_vec) :
                   cs.component_vec[i][1] = cs.component_vec[j][1] => i = j
            /\ Len(cs.component_vec) = Cardinality(DOMAIN cs.entity_component_map)

\* A storage holds every entity created, and a further add to one of them
\* fails with ComponentAlreadyAdded.
C2_Witness ==
    \E C \in DOMAIN component_storage_vecs :
        /\ Len(component_storage_vecs[C].component_vec) = MaxEntities
        /\ \E d \in ComponentData(C) :
               add_entity_component(Self, C, 0, d).result = "ComponentAlreadyAdded"
\* C3 (P6, swap-remove correctness): a successful remove of (a, C) leaves
\* every other entity that has C with C, and get returns for it the value
\* it returned before the removal, wherever a's entry was in component_vec.
C3_RemoveKeepsOthers ==
    \A C \in ComponentTypes, a \in EntityIds :
        LET r == remove_entity_component(Self, C, a)
        IN  r.result = "Ok" =>
                \A b \in EntityIds \ {a} :
                    Has(C, b) =>
                        /\ get_entity_component(Self, C, b) = Ok(stored[<<C, b>>])
                        /\ get_entity_component(r.self, C, b) = Ok(stored[<<C, b>>])

\* The head entry of a storage of three can be removed (the swap case), and
\* the two other entries hold different values.
C3_Witness ==
    \E a \in EntityIds :
        /\ DenseLen(Self, "HealthComponent") = 3
        /\ DensePosition(Self, "HealthComponent", a) = 0
        /\ remove_entity_component(Self, "HealthComponent", a).result = "Ok"
        /\ LET vec == component_storage_vecs["HealthComponent"].component_vec
           IN  vec[2][2] # vec[3][2]

\* C4: a successful remove of (e, C) returns the value stored for (e, C):
\* the one given to the latest successful add or written last through
\* get_mut.
C4_RemoveReturnsStored ==
    \A C \in ComponentTypes, e \in EntityIds :
        LET r == remove_entity_component(Self, C, e)
        IN  r.result = "Ok" => (Has(C, e) /\ r.ret = stored[<<C, e>>])

\* The middle entry of a storage of three (the swap case) was given 1 and
\* the two others 0, and its remove returns 1.
C4_Witness ==
    \E e \in EntityIds :
        /\ DenseLen(Self, "HealthComponent") = 3
        /\ DensePosition(Self, "HealthComponent", e) = 1
        /\ stored[<<"HealthComponent", e>>] = 1
        /\ \A b \in Created \ {e} : stored[<<"HealthComponent", b>>] = 0
        /\ remove_entity_component(Self, "HealthComponent", e).ret = 1

\* C5 (P1, round trip): add of a value c to a valid entity e that lacks C
\* succeeds, and get of (e, C) right after it returns c.
C5_AddThenGet ==
    \A C \in ComponentTypes, e \in EntityIds :
        (is_entity_valid(Self, e) /\ ~Has(C, e)) =>
            \A c \in ComponentData(C) :
                LET r == add_entity_component(Self, C, e, c)
                IN  /\ r.result = "Ok"
                    /\ get_entity_component(r.self, C, e) = Ok(c)

\* An add of 1 has succeeded on a storage that held two entries: the entity
\* owns the tail entry and get returns 1.
C5_Witness ==
    \E e \in EntityIds :
        /\ DenseLen(Self, "HealthComponent") = 3
        /\ DensePosition(Self, "HealthComponent", e) = 2
        /\ Has("HealthComponent", e) /\ stored[<<"HealthComponent", e>>] = 1
        /\ get_entity_component(Self, "HealthComponent", e) = Ok(1)
\* C6 (P2, single owner): add on an entity that has a component of the
\* type fails with ComponentAlreadyAdded and leaves the whole World as it
\* was.
C6_SecondAddFails ==
    \A C \in ComponentTypes, e \in EntityIds :
        Has(C, e) =>
            \A c \in ComponentData(C) :
                add_entity_component(Self, C, e, c) =
                    Leaves(Err("ComponentAlreadyAdded"), Self)

\* An entity was given 0; an add of 1 to it fails and get still returns 0.
C6_Witness ==
    \E e \in EntityIds :
        /\ Has("HealthComponent", e) /\ stored[<<"HealthComponent", e>>] = 0
        /\ add_entity_component(Self, "HealthComponent", e, 1).result =
               "ComponentAlreadyAdded"
        /\ get_entity_component(
               add_entity_component(Self, "HealthComponent", e, 1).self,
               "HealthComponent", e) = Ok(0)

\* C7 (P3, entity gate): add, get, get_mut and remove with an id that
\* create_entity has not returned fail with InvalidEntityId, and add and
\* remove leave the World as it was: no storage is touched or created.
C7_EntityGate ==
    \A C \in ComponentTypes, e \in EntityIds \ Created :
        /\ \A c \in ComponentData(C) :
               add_entity_component(Self, C, e, c) =
                   Leaves(Err("InvalidEntityId"), Self)
        /\ get_entity_component(Self, C, e) = Err("InvalidEntityId")
        /\ get_entity_component_mut(Self, C, e) = Err("InvalidEntityId")
        /\ remove_entity_component(Self, C, e) =
               Leaves(Err("InvalidEntityId"), Self)

\* One type has a storage with entries and another has none; an add of the
\* latter on an id not created fails with InvalidEntityId and the type is
\* still without storage.
C7_Witness ==
    \E C, D \in ComponentTypes, e \in EntityIds \ Created :
        /\ C \notin DOMAIN component_storage_vecs
        /\ DenseLen(Self, D) >= 1
        /\ \E c \in ComponentData(C) :
               LET r == add_entity_component(Self, C, e, c)
               IN  /\ r.result = "InvalidEntityId"
                   /\ C \notin DOMAIN r.self.component_storage_vecs

\* The results of get, get_mut and remove of (e, C).
ReadResults(C, e) ==
    {get_entity_component(Self, C, e).result,
     get_entity_component_mut(Self, C, e).result,
     remove_entity_component(Self, C, e).result}

\* C8 (P4, type gate): for a valid entity, get/get_mut/remove of type C fail
\* with InvalidWorldComponent exactly when no storage for C was ever
\* created; once an add of C has succeeded, they fail with
\* InvalidEntityComponent on every entity that lacks C, also after every
\* component of type C was removed again.
C8_TypeGate ==
    \A C \in ComponentTypes, e \in EntityIds :
        is_entity_valid(Self, e) =>
            /\ IF C \in ever_registered
               THEN "InvalidWorldComponent" \notin ReadResults(C, e)
               ELSE ReadResults(C, e) = {"InvalidWorldComponent"}
            /\ (C \in ever_added /\ ~Has(C, e)) =>
                   ReadResults(C, e) = {"InvalidEntityComponent"}

\* A type was added once and its storage is empty again: the reads of a
\* valid entity fail with InvalidEntityComponent.
C8_Witness ==
    \E C \in ever_added, e \in EntityIds :
        /\ is_entity_valid(Self, e)
        /\ component_storage_vecs[C].component_vec = <<>>
        /\ ReadResults(C, e) = {"InvalidEntityComponent"}

\* C9, as claimed: for a valid entity, InvalidWorldComponent means that the
\* type was never added to any entity, and InvalidEntityComponent that it
\* was added to some entity and this one lacks it.
C9_AsClaimed ==
    \A C \in ComponentTypes, e \in EntityIds :
        is_entity_valid(Self, e) =>
            /\ "InvalidWorldComponent" \in ReadResults(C, e) => C \notin ever_added
            /\ "InvalidEntityComponent" \in ReadResults(C, e) =>
                   (C \in ever_added /\ ~Has(C, e))

\* C9, amended: for a valid entity, InvalidWorldComponent means that the
\* type was never added to any entity and never registered with
\* ensure_component_registered; InvalidEntityComponent means that the type
\* was registered, by a successful add or by ensure_component_registered,
\* and this entity lacks it.
C9_ErrorMeaning ==
    \A C \in ComponentTypes, e \in EntityIds :
        is_entity_valid(Self, e) =>
            /\ "InvalidWorldComponent" \in ReadResults(C, e) =>
                   (C \notin ever_added /\ C \notin ever_registered)
            /\ "InvalidEntityComponent" \in ReadResults(C, e) =>
                   (C \in ever_registered /\ ~Has(C, e))

\* A type was registered with ensure_component_registered and never added:
\* the reads of a valid entity fail with InvalidEntityComponent.
C9_Witness ==
    \E C \in ever_registered \ ever_added, e \in EntityIds :
        /\ is_entity_valid(Self, e)
        /\ ReadResults(C, e) = {"InvalidEntityComponent"}

\* get and remove of (e, C) on self fail with InvalidEntityComponent, and
\* the remove leaves self as it is.
Absent(self, C, e) ==
    /\ get_entity_component(self, C, e) = Err("InvalidEntityComponent")
    /\ remove_entity_component(self, C, e) =
           Leaves(Err("InvalidEntityComponent"), self)

\* C10 (P5, remove idempotence): a successful remove of (e, C) leaves a
\* World in which get and remove of (e, C) fail with
\* InvalidEntityComponent; and they fail so in every state in which the
\* pair holds no value while the type was added and the entity is valid,
\* as it is from a successful remove of the pair to the next successful
\* add to it.
C10_RemoveIdempotent ==
    \A C \in ComponentTypes, e \in EntityIds :
        /\ LET r == remove_entity_component(Self, C, e)
           IN  r.result = "Ok" => Absent(r.self, C, e)
        /\ (is_entity_valid(Self, e) /\ C \in ever_added /\ ~Has(C, e)) =>
               Absent(Self, C, e)

\* The head entry of a storage of three is removed (the swap case): the
\* storage keeps two entries and a second remove of the pair fails.
C10_Witness ==
    \E C \in ComponentTypes, e \in EntityIds :
        /\ DenseLen(Self, C) = 3 /\ DensePosition(Self, C, e) = 0
        /\ LET r == remove_entity_component(Self, C, e)
           IN  /\ r.result = "Ok"
               /\ DenseLen(r.self, C) = 2
               /\ remove_entity_component(r.self, C, e).result =
                      "InvalidEntityComponent"

\* C11: a value written through the reference of get_entity_component_mut
\* of (e, C) is what get of (e, C) returns and what remove of (e, C)
\* returns right after the write, and in every later state as long as the
\* pair was not written again or removed (the history value of the pair);
\* the write leaves get of every other pair, and the storage of every other
\* type, as they were.
C11_WriteIsRead ==
    \A C \in ComponentTypes, e \in EntityIds :
        /\ Has(C, e) =>
               /\ get_entity_component(Self, C, e) = Ok(stored[<<C, e>>])
               /\ remove_entity_component(Self, C, e).result = "Ok"
               /\ remove_entity_component(Self, C, e).ret = stored[<<C, e>>]
        /\ LET r == get_entity_component_mut(Self, C, e)
           IN  r.result = "Ok" =>
                   \A d \in ComponentData(C) :
                       LET written == write_component(Self, C, r.ret, d)
                       IN  /\ get_entity_component(written, C, e) = Ok(d)
                           /\ remove_entity_component(written, C, e).result = "Ok"
                           /\ remove_entity_component(written, C, e).ret = d
                           /\ \A D \in ComponentTypes, b \in EntityIds :
                                  <<D, b>> # <<C, e>> =>
                                      get_entity_component(written, D, b) =
                                          get_entity_component(Self, D, b)
                           /\ \A D \in DOMAIN component_storage_vecs \ {C} :
                                  written.component_storage_vecs[D] =
                                      component_storage_vecs[D]

\* The middle entry of a storage of three holds 0 like its two neighbours,
\* the entity has a component of the other type too, and a write of 1
\* through get_mut makes get and remove of the pair return 1.
C11_Witness ==
    \E e \in EntityIds :
        /\ DenseLen(Self, "HealthComponent") = 3
        /\ DensePosition(Self, "HealthComponent", e) = 1
        /\ \A b \in Created : stored[<<"HealthComponent", b>>] = 0
        /\ Has("PlayerTag", e)
        /\ LET r == get_entity_component_mut(Self, "HealthComponent", e)
               written == write_component(Self, "HealthComponent", r.ret, 1)
           IN  /\ r.result = "Ok"
               /\ get_entity_component(written, "HealthComponent", e) = Ok(1)
               /\ remove_entity_component(written, "HealthComponent", e).ret = 1

\* What a call of create_entity on the World of the state would do: the id
\* is greater than every id returned before, it is not valid before the
\* call and it is valid after it.
CreateReturnsFresh ==
    LET r == create_entity(Self)
    IN  /\ \A id \in Created : r.ret > id
        /\ ~is_entity_valid(Self, r.ret)
        /\ is_entity_valid(r.self, r.ret)

\* C12, as claimed: every call of create_entity returns an id strictly
\* greater than every id returned by an earlier call, which was not valid
\* before the call and is valid right after it.
C12_AsClaimed == CreateReturnsFresh

\* C12, amended: each of the first 2^UsizeBits calls of create_entity
\* returns an id strictly greater than every id returned by an earlier
\* call, which was not valid before the call and is valid right after it;
\* so the ids returned by these calls are strictly increasing, and every
\* id returned, also past the wrap of the counter, is valid afterwards.
C12_FreshBeforeWrap ==
    /\ Len(returned) < UsizeValues => CreateReturnsFresh
    /\ \A i, j \in 1 .. Len(returned) :
           (i < j /\ j <= UsizeValues) => returned[i] < returned[j]
    /\ \A id \in Created : is_entity_valid(Self, id)
    /\ is_entity_valid(create_entity(Self).self, create_entity(Self).ret)

\* create_entity was called 2^UsizeBits - 1 times, and the last call before
\* the wrap of the counter returns the greatest usize, which was not valid.
C12_Witness ==
    /\ Len(returned) = UsizeValues - 1
    /\ create_entity(Self).ret = UsizeValues - 1
    /\ ~is_entity_valid(Self, UsizeValues - 1)
    /\ create_entity(Self).self.entity_counter = 0

\* C13: validity is never revoked: an id for which is_entity_valid is true
\* in a state has it true in the next state, whatever call is made, and so
\* in every later state.
C13_ValidityKept ==
    [][\A id \in 0 .. UsizeValues - 1 :
           is_entity_valid(Self, id) => is_entity_valid(Self, id)']_vars

\* create_entity was called once past the wrap of the counter, both types
\* were added and every component was removed again, so that get, get_mut
\* and remove of entity 0 fail, and every id is still valid.
C13_Witness ==
    /\ Len(returned) = UsizeValues + 1
    /\ ever_added = ComponentTypes
    /\ stored = EmptyMap
    /\ \A C \in ComponentTypes :
           ReadResults(C, 0) = {"InvalidEntityComponent"}
    /\ \A id \in 0 .. UsizeValues - 1 : is_entity_valid(Self, id)

\* The pair (e, C) is Present in self: get_entity_component finds a value.
Present(self, C, e) == get_entity_component(self, C, e).result = "Ok"

\* C14: each pair (e, C) is Present exactly when the history says so, that
\* is from a successful add on that pair to the next successful remove on
\* that pair, and no other call moves it; add on a Present pair fails and
\* leaves it Present with its value; a write through get_mut leaves it
\* Present; a successful remove leaves it Absent, and a new add on that
\* World succeeds and get returns the new value.
C14_PairStateMachine ==
    \A C \in ComponentTypes, e \in EntityIds :
        /\ Present(Self, C, e) <=> Has(C, e)
        /\ Present(Self, C, e) =>
               /\ \A d \in ComponentData(C) :
                      LET a == add_entity_component(Self, C, e, d)
                          m == get_entity_component_mut(Self, C, e)
                      IN  /\ a.result = "ComponentAlreadyAdded"
                          /\ get_entity_component(a.self, C, e) =
                                 get_entity_component(Self, C, e)
                          /\ m.result = "Ok"
                          /\ Present(write_component(Self, C, m.ret, d), C, e)
               /\ LET r == remove_entity_component(Self, C, e)
                  IN  /\ r.result = "Ok"
                      /\ ~Present(r.self, C, e)
                      /\ \A d \in ComponentData(C) :
                             LET a == add_entity_component(r.self, C, e, d)
                             IN  /\ a.result = "Ok"
                                 /\ get_entity_component(a.self, C, e) = Ok(d)
        /\ ~Present(Self, C, e) =>
               /\ get_entity_component_mut(Self, C, e).result # "Ok"
               /\ remove_entity_component(Self, C, e).result # "Ok"
               /\ remove_entity_component(Self, C, e).self = Self

\* The head entry of a storage of three holds 0: an add of 1 to its entity
\* fails, its remove succeeds and leaves the pair Absent, and an add of 1
\* after the remove succeeds and get returns 1.
C14_Witness ==
    \E e \in EntityIds :
        /\ DenseLen(Self, "HealthComponent") = 3
        /\ DensePosition(Self, "HealthComponent", e) = 0
        /\ stored[<<"HealthComponent", e>>] = 0
        /\ add_entity_component(Self, "HealthComponent", e, 1).result =
               "ComponentAlreadyAdded"
        /\ LET r == remove_entity_component(Self, "HealthComponent", e)
               a == add_entity_component(r.self, "HealthComponent", e, 1)
           IN  /\ r.result = "Ok"
               /\ ~Present(r.self, "HealthComponent", e)
               /\ a.result = "Ok"
               /\ get_entity_component(a.self, "HealthComponent", e) = Ok(1)

\* C15: ensure_component_registered of a type without storage returns false
\* and leaves the World with an empty storage for the type added; of a type
\* with a storage it returns true and leaves the World as it was; so a
\* second call returns true and changes nothing, as does every call after
\* the type was registered once; no call changes an existing storage, the
\* validity set or the counter.
C15_EnsureIdempotent ==
    \A C \in ComponentTypes :
        LET r == ensure_component_registered(Self, C)
            again == ensure_component_registered(r.self, C)
        IN  /\ r.result = "Ok"
            /\ IF C \in DOMAIN component_storage_vecs
               THEN r.ret = TRUE /\ r.self = Self
               ELSE /\ r.ret = FALSE
                    /\ DOMAIN r.self.component_storage_vecs =
                           DOMAIN component_storage_vecs \cup {C}
                    /\ r.self.component_storage_vecs[C] = NewStorage
            /\ \A D \in DOMAIN component_storage_vecs :
                   r.self.component_storage_vecs[D] = component_storage_vecs[D]
            /\ r.self.entity_validity_set = entity_validity_set
            /\ r.self.entity_counter = entity_counter
            /\ again.ret = TRUE /\ again.self = r.self
            /\ C \in ever_registered => r.ret = TRUE

\* One type has no storage and the other a storage of two entries or more:
\* ensure_component_registered returns false for the first and then true,
\* and true for the second, whose entries stay.
C15_Witness ==
    \E C, D \in ComponentTypes :
        /\ C \notin DOMAIN component_storage_vecs
        /\ DenseLen(Self, D) >= 2
        /\ ensure_component_registered(Self, C).ret = FALSE
        /\ ensure_component_registered(
               ensure_component_registered(Self, C).self, C).ret = TRUE
        /\ ensure_component_registered(Self, D).ret = TRUE
        /\ DenseLen(ensure_component_registered(Self, D).self, D) >= 2

\* C16: add_entity_component returns Ok, InvalidEntityId or
\* ComponentAlreadyAdded and nothing else: InvalidEntityId exactly for an
\* entity that is not valid, ComponentAlreadyAdded exactly for a valid
\* entity that has the type, and Ok for a valid entity that lacks it, also
\* when the type had no storage, which the call then creates.
C16_AddErrors ==
    \A C \in ComponentTypes, e \in EntityIds :
        \A d \in ComponentData(C) :
            LET r == add_entity_component(Self, C, e, d)
            IN  /\ r.result \in {"Ok", "InvalidEntityId", "ComponentAlreadyAdded"}
                /\ r.result = "InvalidEntityId" <=> ~is_entity_valid(Self, e)
                /\ r.result = "ComponentAlreadyAdded" <=>
                       (is_entity_valid(Self, e) /\ Has(C, e))
                /\ r.result = "Ok" <=> (is_entity_valid(Self, e) /\ ~Has(C, e))
                /\ r.result = "Ok" =>
                       /\ C \in DOMAIN r.self.component_storage_vecs
                       /\ e \in DOMAIN r.self.component_storage_vecs[C].entity_component_map

\* A type has no storage and was never registered: an add of it to a valid
\* entity succeeds and leaves a storage with the one entry; an add to an
\* entity that is not valid fails with InvalidEntityId.
C16_Witness ==
    \E C \in ComponentTypes \ ever_registered, e \in EntityIds \ {MaxEntities} :
        /\ C \notin DOMAIN component_storage_vecs
        /\ is_entity_valid(Self, e)
        /\ \E d \in ComponentData(C) :
               /\ add_entity_component(Self, C, e, d).result = "Ok"
               /\ DenseLen(add_entity_component(Self, C, e, d).self, C) = 1
               /\ add_entity_component(Self, C, MaxEntities, d).result =
                      "InvalidEntityId"

\* The storage of type D, component_vec and entity_component_map, is in
\* other what it is in self (or there is none in both), and get of every
\* entity for D returns the same.
SameBucket(self, other, D) ==
    /\ D \in DOMAIN self.component_storage_vecs <=>
           D \in DOMAIN other.component_storage_vecs
    /\ D \in DOMAIN self.component_storage_vecs =>
           self.component_storage_vecs[D] = other.component_storage_vecs[D]
    /\ \A b \in EntityIds :
           get_entity_component(self, D, b) = get_entity_component(other, D, b)

\* C17: a call of add, of get_mut with a write through its reference, of
\* remove or of ensure_component_registered for a type C, with any entity
\* and value and whatever its result, leaves the storage of every other
\* type D as it was, and with it the presence and value of (e, D) for every
\* entity e.
C17_TypesIndependent ==
    \A C \in ComponentTypes : \A D \in ComponentTypes \ {C} :
        /\ SameBucket(Self, ensure_component_registered(Self, C).self, D)
        /\ \A e \in EntityIds :
               /\ SameBucket(Self, remove_entity_component(Self, C, e).self, D)
               /\ \A d \in ComponentData(C) :
                      /\ SameBucket(Self, add_entity_component(Self, C, e, d).self, D)
                      /\ LET m == get_entity_component_mut(Self, C, e)
                         IN  m.result = "Ok" =>
                                 SameBucket(Self, write_component(Self, C, m.ret, d), D)

\* An entity owns the head entry of the storage of each of the two types,
\* each of two entries or more, and its remove for the one type succeeds
\* (the swap case) while get for the other type still finds its value.
C17_Witness ==
    \E C \in ComponentTypes, e \in EntityIds :
        LET D == CHOOSE T \in ComponentTypes : T # C
        IN  /\ DenseLen(Self, C) >= 2 /\ DensePosition(Self, C, e) = 0
            /\ DenseLen(Self, D) >= 2 /\ DensePosition(Self, D, e) = 0
            /\ remove_entity_component(Self, C, e).result = "Ok"
            /\ get_entity_component(remove_entity_component(Self, C, e).self, D, e) =
                   Ok(stored[<<D, e>>])

\* C18: a successful remove of (e, C) leaves a component_vec shorter by one
\* and an entity_component_map without e; the entity of the former tail
\* entry, if it is not e, owns the entry at the former position of e, the
\* entry being the former tail entry, and its index entry is that position;
\* every other entity keeps its position, its entry and its index entry; no
\* index entry is left for e, and every index entry left points at an entry
\* of its entity.
C18_RemoveRelocatesTail ==
    \A C \in DOMAIN component_storage_vecs, e \in EntityIds :
        LET r == remove_entity_component(Self, C, e)
            before == component_storage_vecs[C]
            after == r.self.component_storage_vecs[C]
            n == Len(before.component_vec)
            i == DensePosition(Self, C, e)
        IN  r.result = "Ok" =>
                /\ i # None
                /\ Len(after.component_vec) = n - 1
                /\ DOMAIN after.entity_component_map =
                       DOMAIN before.entity_component_map \ {e}
                /\ e \notin DenseEntities(after)
                /\ \A b \in DenseEntities(before) \ {e} :
                       LET was == DensePosition(Self, C, b)
                           now == DensePosition(r.self, C, b)
                       IN  IF b = before.component_vec[n][1]
                           THEN /\ now = i
                                /\ after.component_vec[i + 1] = before.component_vec[n]
                                /\ after.entity_component_map[b] = i
                           ELSE /\ now = was
                                /\ after.component_vec[now + 1] =
                                       before.component_vec[was + 1]
                                /\ after.entity_component_map[b] = was
                                /\ before.entity_component_map[b] = was

\* The remove of the head entry of a storage of three moves the tail entry
\* to position 0 and leaves the middle entry at position 1; the remove of
\* the tail entry of the same storage leaves the two others where they are.
C18_Witness ==
    \E C \in DOMAIN component_storage_vecs :
        /\ DenseLen(Self, C) = 3
        /\ LET vec == component_storage_vecs[C].component_vec
               head == remove_entity_component(Self, C, vec[1][1])
               last == remove_entity_component(Self, C, vec[3][1])
           IN  /\ head.result = "Ok" /\ last.result = "Ok"
               /\ DensePosition(head.self, C, vec[3][1]) = 0
               /\ DensePosition(head.self, C, vec[2][1]) = 1
               /\ DensePosition(last.self, C, vec[1][1]) = 0
               /\ DensePosition(last.self, C, vec[2][1]) = 1

\* C19: no call has panicked and no call of a public operation on the World
\* of the state panics, whatever its arguments; for every index entry the
\* component_vec is not empty (the expect on pop holds) and the position is
\* within the vector (the indexing of get and get_mut), and a position
\* that is not the tail's is within the vector after the pop (the indexing
\* of the swap case of remove).
C19_NoPanic ==
    /\ ~panicked
    /\ create_entity(Self).result # "Panic"
    /\ \A C \in ComponentTypes :
           /\ ensure_component_registered(Self, C).result # "Panic"
           /\ \A e \in EntityIds :
                  /\ get_entity_component(Self, C, e).result # "Panic"
                  /\ get_entity_component_mut(Self, C, e).result # "Panic"
                  /\ remove_entity_component(Self, C, e).result # "Panic"
                  /\ \A d \in ComponentData(C) :
                         add_entity_component(Self, C, e, d).result # "Panic"
    /\ \A C \in DOMAIN component_storage_vecs :
           LET cs == component_storage_vecs[C]
               len == Len(cs.component_vec)
           IN  \A e \in DOMAIN cs.entity_component_map :
                   /\ len >= 1
                   /\ cs.entity_component_map[e] >= 0
                   /\ cs.entity_component_map[e] < len
                   /\ cs.entity_component_map[e] # len - 1 =>
                          cs.entity_component_map[e] < len - 1

\* A storage of three entries is emptied by three removes of the entry at
\* position 0, a swap case twice and then the tail case on a vector of one
\* entry: none panics, and get finds the relocated entry after the first.
C19_Witness ==
    \E C \in DOMAIN component_storage_vecs :
        /\ DenseLen(Self, C) = 3
        /\ LET vec == component_storage_vecs[C].component_vec
               first == remove_entity_component(Self, C, vec[1][1])
               second == remove_entity_component(first.self, C, vec[3][1])
               third == remove_entity_component(second.self, C, vec[2][1])
           IN  /\ first.result = "Ok"
               /\ get_entity_component(first.self, C, vec[3][1]).result = "Ok"
               /\ second.result = "Ok"
               /\ third.result = "Ok"
               /\ DenseLen(third.self, C) = 0
               /\ remove_entity_component(third.self, C, vec[2][1]).result =
                      "InvalidEntityComponent"

\* C20: whenever remove_entity_component of (e, C) passes its three checks,
\* the component_vec is not empty, the test `index of e == length after the
\* pop` is true exactly when the popped entry is owned by e, and when it is
\* false the popped entry's entity has an index entry after the one of e
\* is removed, so that the `if let Some(index)` update takes place, and the
\* call ends with that entity's index entry at the former index of e.
C20_TailTest ==
    \A C \in ComponentTypes, e \in EntityIds :
        remove_entity_component(Self, C, e).result \notin
            {"InvalidEntityId", "InvalidWorldComponent", "InvalidEntityComponent"} =>
            LET cs == component_storage_vecs[C]
                len == Len(cs.component_vec)
            IN  /\ len >= 1
                /\ popped_is_removed(cs, e) <=> cs.component_vec[len][1] = e
                /\ ~popped_is_removed(cs, e) =>
                       /\ popped_has_index(cs, e)
                       /\ remove_entity_component(Self, C, e).self
                              .component_storage_vecs[C]
                              .entity_component_map[cs.component_vec[len][1]] =
                              cs.entity_component_map[e]

\* In a storage of three entries the remove of the tail entry's entity
\* passes the test and the removes of the two other entities do not, the
\* popped entry's entity having an index entry; all three succeed.
C20_Witness ==
    \E C \in DOMAIN component_storage_vecs :
        /\ DenseLen(Self, C) = 3
        /\ LET cs == component_storage_vecs[C]
               vec == cs.component_vec
           IN  /\ popped_is_removed(cs, vec[3][1])
               /\ ~popped_is_removed(cs, vec[1][1]) /\ popped_has_index(cs, vec[1][1])
               /\ ~popped_is_removed(cs, vec[2][1]) /\ popped_has_index(cs, vec[2][1])
               /\ \A i \in 1 .. 3 :
                      remove_entity_component(Self, C, vec[i][1]).result = "Ok"

\* The variants of Error (error.rs).
Errors ==
    {"InvalidEntityId", "InvalidWorldComponent", "InvalidEntityComponent",
     "ComponentAlreadyAdded"}

\* A step leaves the fields of the World as they are.
WorldKept ==
    UNCHANGED <<component_storage_vecs, entity_validity_set, entity_counter>>

\* C21: in every state a call of add or remove that returns an error
\* leaves the World it was made on, and a remove that returns an error
\* creates no storage; and every step that is a call of
\* get_entity_component or of is_entity_valid, or a call of add, get_mut or
\* remove returning an error, leaves validity set, counter, the set of
\* storages and every component_vec and entity_component_map unchanged.
C21_ErrorsChangeNothing ==
    /\ [](\A C \in ComponentTypes, e \in EntityIds :
              /\ LET r == remove_entity_component(Self, C, e)
                 IN  r.result \in Errors =>
                         /\ r.self = Self
                         /\ DOMAIN r.self.component_storage_vecs =
                                DOMAIN component_storage_vecs
              /\ \A d \in ComponentData(C) :
                     LET a == add_entity_component(Self, C, e, d)
                     IN  a.result \in Errors => a.self = Self)
    /\ [][/\ \A id \in EntityIds : IsEntityValid(id) => WorldKept
          /\ \A C \in ComponentTypes, e \in EntityIds :
                 /\ GetEntityComponent(C, e) => WorldKept
                 /\ (/\ RemoveEntityComponent(C, e)
                     /\ remove_entity_component(Self, C, e).result \in Errors)
                        => WorldKept
                 /\ \A d \in ComponentData(C) :
                        /\ (/\ AddEntityComponent(C, e, d)
                            /\ add_entity_component(Self, C, e, d).result \in Errors)
                               => WorldKept
                        /\ (/\ GetEntityComponentMut(C, e, d)
                            /\ get_entity_component_mut(Self, C, e).result \in Errors)
                               => WorldKept]_vars

\* HealthComponent has a storage of two entries or more and PlayerTag has
\* none: for a valid entity that has a HealthComponent, get, get_mut and
\* remove of PlayerTag fail with InvalidWorldComponent and the remove leaves
\* the World without a storage for PlayerTag; an add of HealthComponent
\* fails with ComponentAlreadyAdded; for another valid entity get and remove
\* of HealthComponent fail with InvalidEntityComponent; and the calls with
\* an id that is not valid fail with InvalidEntityId.
C21_Witness ==
    \E e, b \in Created :
        /\ DenseLen(Self, "HealthComponent") >= 2
        /\ "PlayerTag" \notin DOMAIN component_storage_vecs
        /\ ReadResults("PlayerTag", e) = {"InvalidWorldComponent"}
        /\ remove_entity_component(Self, "PlayerTag", e).self = Self
        /\ add_entity_component(Self, "HealthComponent", e, 1) =
               Leaves(Err("ComponentAlreadyAdded"), Self)
        /\ ReadResults("HealthComponent", b) = {"InvalidEntityComponent"}
        /\ ReadResults("HealthComponent", MaxEntities) = {"InvalidEntityId"}
        /\ remove_entity_component(Self, "HealthComponent", MaxEntities).self = Self

\* The counter and the validity set of other are those of self.
SameAllocator(self, other) ==
    /\ other.entity_counter = self.entity_counter
    /\ other.entity_validity_set = self.entity_validity_set

\* C22: with entity_counter a UsizeBits-bit integer that fetch_add wraps,
\* after n < 2^UsizeBits calls of create_entity the counter is n, the ids
\* returned were 0, 1, ..., n - 1 in this order and is_entity_valid is true
\* for exactly these ids; and no call of ensure_component_registered, add,
\* get_mut with a write, or remove changes the counter or the validity set.
C22_CounterCounts ==
    /\ Len(returned) < UsizeValues =>
           /\ entity_counter = Len(returned)
           /\ returned = [i \in 1 .. Len(returned) |-> i - 1]
           /\ \A id \in 0 .. UsizeValues - 1 :
                  is_entity_valid(Self, id) <=> id < Len(returned)
    /\ \A C \in ComponentTypes :
           /\ SameAllocator(Self, ensure_component_registered(Self, C).self)
           /\ \A e \in 0 .. UsizeValues - 1 :
                  /\ SameAllocator(Self, remove_entity_component(Self, C, e).self)
                  /\ \A d \in ComponentData(C) :
                         /\ SameAllocator(Self, add_entity_component(Self, C, e, d).self)
                         /\ LET m == get_entity_component_mut(Self, C, e)
                            IN  m.result = "Ok" =>
                                    SameAllocator(Self,
                                                  write_component(Self, C, m.ret, d))

\* create_entity was called 2^UsizeBits - 1 times, and calls of add and
\* remove have left entity 0 with a component of one type and without the
\* one of the other type, which was added and removed: the counter is
\* 2^UsizeBits - 1 and the greatest usize is the one id that is not valid.
C22_Witness ==
    /\ Len(returned) = UsizeValues - 1
    /\ entity_counter = UsizeValues - 1
    /\ ever_added = ComponentTypes
    /\ \E C \in ComponentTypes : DOMAIN stored = {<<C, 0>>}
    /\ \A id \in 0 .. UsizeValues - 1 :
           is_entity_valid(Self, id) <=> id # UsizeValues - 1

====
